---- MODULE Spec2Model ----
(***************************************************************************)
(* Reputation based proposer election                                      *)
(* (consensus/src/chained_bft/liveness/leader_reputation.rs).              *)
(*                                                                         *)
(* The committed history is the event log libra_db, appended to by the     *)
(* commit path.  LeaderReputation engines read it through LibraDBBackend,  *)
(* weigh the candidates with a ReputationHeuristic and draw one of them    *)
(* with a pseudo-random value seeded by the round.                         *)
(*                                                                         *)
(* Option<T> is a sequence of length <= 1: None is <<>>, Some(x) is <<x>>. *)
(* Vec<T> is a sequence.  A call that panics has status "panic" and names  *)
(* the place of the panic in "at".                                         *)
(***************************************************************************)
EXTENDS Integers, Sequences, FiniteSets, TLC

VARIABLES
    libra_db,    \* the NewBlockEvent log of the store, in commit order
    engines,     \* engine id -> LeaderReputation {proposers, window_size, heuristic}
    prng_seed,   \* which member of the family of hash functions next() is
    store_fault, \* what is wrong with the store: reads that fail, events that do not decode
    overflow_checks, \* whether the build panics on integer overflow (debug) or wraps (release)
    frames,      \* the calls in flight, step by step: each thread's position and locals
    ret,         \* the last call made on an engine, with what it returned
    accepted     \* history variable: the proposals process_proposal has let through

vars == <<libra_db, engines, prng_seed, store_fault, overflow_checks, frames, ret, accepted>>

\* ------------------------------------------------------------------ bounds

MaxRound == 2
MaxCallRound == 10
MaxSeed == 1
MaxProposalRound == 6
MaxLen == 3
MaxWeight == 2
MaxDraw == 59
MaxHistory == 2
LongMaxRound == 50
WordBits == 9
MaxFaultLog == 3
MaxIoFaults == 2

\* ------------------------------------------------------- program constants

\* let buffer = 10;
buffer == 10

\* if round >= 4 { round - 4 } else { 0 }
GAP == 4

\* the number of values of a u64, with the 64 bits scaled down to WordBits
U64 == 2 ^ WordBits

\* ------------------------------------------------------------- small helpers

None == <<>>

Some(x) == <<x>>

Min(a, b) == IF a <= b THEN a ELSE b

Contains(s, x) == \E i \in 1..Len(s) : s[i] = x

RECURSIVE SumSeq(_)
SumSeq(s) == IF s = <<>> THEN 0 ELSE s[1] + SumSeq(Tail(s))

\* Iterator::take(n)
Take(s, n) == SubSeq(s, 1, Min(n, Len(s)))

\* Iterator::filter with the closure |e| e.round() <= target_round
RECURSIVE FilterRound(_, _)
FilterRound(s, target_round) ==
    IF s = <<>> THEN <<>>
    ELSE IF s[1].round <= target_round
         THEN <<s[1]>> \o FilterRound(Tail(s), target_round)
         ELSE FilterRound(Tail(s), target_round)

\* One step of a stable insertion: e goes after every element whose round is
\* not greater than its own.
RECURSIVE InsertByRound(_, _)
InsertByRound(sorted, e) ==
    IF sorted = <<>> THEN <<e>>
    ELSE IF sorted[1].round <= e.round
         THEN <<sorted[1]>> \o InsertByRound(Tail(sorted), e)
         ELSE <<e>> \o sorted

\* the events left in the order of the fetch, newest first
SortSkipped(s) == s

\* events.sort_by(|a, b| a.round().cmp(&b.round())): a stable sort
RECURSIVE SortByRound(_)
SortByRound(s) ==
    IF s = <<>> THEN <<>>
    ELSE InsertByRound(SortByRound(SubSeq(s, 1, Len(s) - 1)), s[Len(s)])

\* ------------------------------------------------------------ the backend

\* NewBlockEvent as the election reads it: round(), proposer(), votes()
NewBlockEvent(round, proposer, votes) ==
    [round |-> round, proposer |-> proposer, votes |-> votes]

\* LibraDBTrait::get_events(key, u64::max_value(), limit): the newest `limit`
\* events of the log, newest first.
get_events(db, limit) ==
    [i \in 1..Min(limit, Len(db)) |-> db[Len(db) + 1 - i]]

\* LibraDBBackend::get_block_metadata
get_block_metadata(db, window_size, target_round) ==
    LET events == get_events(db, window_size + buffer)
        kept == Take(FilterRound(events, target_round), window_size)
    IN SortByRound(kept)

\* the store in order: every read succeeds and every event decodes.  io is the
\* number of coming get_events calls that return Err, corrupt the positions of
\* the log whose bytes are no NewBlockEvent
NoFault == [io |-> 0, corrupt |-> {}]

\* the store after one get_events call
after_get_events(fault) == [fault EXCEPT !.io = IF @ > 0 THEN @ - 1 ELSE 0]

\* get_events(..) asked again after an Err: the second answer is unwrapped
get_events_retried_is_err(fault) == fault.io > 1

\* get_events(..).unwrap(): the one answer of the store is Err
get_events_is_err(fault) == fault.io > 0

\* the place among the fetched events (newest first, from 1) of the first one
\* whose bytes lcs::from_bytes rejects; 0 when all of them decode
first_undecodable(db, limit, fault) ==
    LET fetched == Min(limit, Len(db))
        bad == {i \in 1..fetched : (Len(db) + 1 - i) \in fault.corrupt}
    IN IF bad = {} THEN 0 ELSE CHOOSE i \in bad : \A j \in bad : i <= j

\* map(from_bytes(..).unwrap()).filter(..).take(window_size) is lazy: an event
\* is decoded only while fewer than window_size events have passed the filter
from_bytes_is_err(db, fault, window_size, target_round) ==
    LET events == get_events(db, window_size + buffer)
        k == first_undecodable(db, window_size + buffer, fault)
    IN /\ k > 0
       /\ Len(FilterRound(SubSeq(events, 1, k - 1), target_round)) < window_size

\* LibraDBBackend::get_block_metadata with its two unwraps: the window, or the
\* panic of the call
try_get_block_metadata(db, fault, window_size, target_round) ==
    IF get_events_is_err(fault)
    THEN [status |-> "panic", at |-> "get_events", value |-> <<>>]
    ELSE IF from_bytes_is_err(db, fault, window_size, target_round)
    THEN [status |-> "panic", at |-> "from_bytes", value |-> <<>>]
    ELSE [status |-> "ok", at |-> "",
          value |-> get_block_metadata(db, window_size, target_round)]

\* ----------------------------------------------------------- the heuristic

\* the set of the newest record alone: the fold restarted at every record
ActiveSetOfNewest(history) ==
    IF history = <<>> THEN {}
    ELSE {history[Len(history)].proposer} \cup history[Len(history)].votes

\* the fold without set.extend(meta.votes()): the proposers alone
ActiveSetOfProposers(history) ==
    {history[i].proposer : i \in 1..Len(history)}

\* the fold of get_weights: every proposer and every voter of the history
ActiveSet(history) ==
    UNION { {history[i].proposer} \cup history[i].votes : i \in 1..Len(history) }

ActiveInactiveHeuristic(active_weight, inactive_weight) ==
    [kind |-> "ActiveInactive", active_weight |-> active_weight,
     inactive_weight |-> inactive_weight, fixed |-> <<>>]

\* Another implementation of the ReputationHeuristic trait: it returns the
\* same vector whatever the candidates and the history are.
FixedHeuristic(weights) ==
    [kind |-> "Fixed", active_weight |-> 0, inactive_weight |-> 0, fixed |-> weights]

\* a weight for the active candidates only, the others left out of the vector
ActiveInactive_get_weights_of_active(h, candidates, history) ==
    LET set == ActiveSet(history)
        active == SelectSeq(candidates, LAMBDA c : c \in set)
    IN [i \in 1..Len(active) |-> h.active_weight]

\* ActiveInactiveHeuristic::get_weights
ActiveInactive_get_weights(h, candidates, history) ==
    LET set == ActiveSet(history)
    IN [i \in 1..Len(candidates) |->
           IF candidates[i] \in set THEN h.active_weight ELSE h.inactive_weight]

\* self.heuristic.get_weights(..) through Box<dyn ReputationHeuristic>
get_weights(h, candidates, history) ==
    IF h.kind = "ActiveInactive"
    THEN ActiveInactive_get_weights(h, candidates, history)
    ELSE h.fixed

\* ------------------------------------------------------- the election engine

\* LeaderReputation::new; the backend is the LibraDBBackend over libra_db
LeaderReputation_new(proposers, window_size, heuristic) ==
    [proposers |-> proposers, window_size |-> window_size, heuristic |-> heuristic]

\* let target_round = round - 4;
target_round_unguarded(round) == round - GAP

\* let target_round = if round >= 4 { round - 4 } else { 0 };
target_round_of(round) == IF round >= GAP THEN round - GAP ELSE 0

\* the loop with its two statements swapped: each weight becomes the sum of
\* those before it
PrefixSumsBefore(weights) ==
    [i \in 1..Len(weights) |-> SumSeq(SubSeq(weights, 1, i - 1))]

\* the sum kept in an accumulator of half the width
wrapping_add_half(a, b) == (a + b) % (2 ^ (WordBits \div 2))

\* total_weight += *w where overflow is not checked: the sum modulo 2^64
wrapping_add(a, b) == (a + b) % U64

\* total_weight += *w where overflow is checked: TRUE when the sum needs more
\* than 64 bits and the addition panics
add_overflows(a, b) == a + b >= U64

\* for w in &mut weights { total_weight += *w; *w = total_weight; }
RECURSIVE PrefixSums(_)
PrefixSums(weights) ==
    IF weights = <<>> THEN <<>>
    ELSE LET before == PrefixSums(SubSeq(weights, 1, Len(weights) - 1))
             total_weight == IF before = <<>> THEN 0 ELSE before[Len(before)]
         IN Append(before, wrapping_add(total_weight, weights[Len(weights)]))

\* the loop reaches an addition that overflows
RECURSIVE PrefixSumsOverflow(_)
PrefixSumsOverflow(weights) ==
    IF weights = <<>> THEN FALSE
    ELSE LET before == PrefixSums(SubSeq(weights, 1, Len(weights) - 1))
             total_weight == IF before = <<>> THEN 0 ELSE before[Len(before)]
         IN \/ PrefixSumsOverflow(SubSeq(weights, 1, Len(weights) - 1))
            \/ add_overflows(total_weight, weights[Len(weights)])

\* total_weight after the loop
TotalOf(cum) == IF cum = <<>> THEN 0 ELSE cum[Len(cum)]

\* Round::to_le_bytes(): the 8 bytes of a u64, lowest first
RECURSIVE LeBytes(_, _)
LeBytes(n, k) == IF k = 0 THEN <<>> ELSE <<n % 256>> \o LeBytes(n \div 256, k - 1)

to_le_bytes(round) == LeBytes(round, 8)

\* the u64 that 8 little-endian bytes spell
RECURSIVE LeValue(_)
LeValue(bytes) == IF bytes = <<>> THEN 0 ELSE bytes[1] + 256 * LeValue(Tail(bytes))

\* proposer_election::next(&mut state): a fixed pseudo-random function of the
\* bytes of the state (a hash of them).  Which function is left open: prng_seed
\* picks one member of a family and never changes.
next(state) == prng_seed + 7 * LeValue(state)

\* let mut state = round.to_le_bytes().to_vec(), seeded with the instance too
seed_state_of_instance(self, round) == to_le_bytes(round + self)

\* let mut state = round.to_le_bytes().to_vec();
seed_state(self, round) == to_le_bytes(round)

\* a remainder that yields 0 for a zero divisor instead of panicking
RemOrZero(a, b) == IF b = 0 THEN [ok |-> TRUE, value |-> 0] ELSE [ok |-> TRUE, value |-> a % b]

\* next(&mut state) % total_weight: the % of u64 panics when the divisor is 0
Rem(a, b) == IF b = 0 THEN [ok |-> FALSE, value |-> -1] ELSE [ok |-> TRUE, value |-> a % b]

\* the closure of a search for the draw itself: Equal when the sum is the draw
CmpExact(w, chosen_weight) ==
    IF w < chosen_weight THEN "Less"
    ELSE IF w = chosen_weight THEN "Equal" ELSE "Greater"

\* the closure with the tie-break loosened: a sum equal to the draw is taken
CmpLoose(w, chosen_weight) == IF w < chosen_weight THEN "Less" ELSE "Greater"

\* the closure given to binary_search_by
Cmp(w, chosen_weight) == IF w <= chosen_weight THEN "Less" ELSE "Greater"

\* the loop of slice::binary_search_by; base and size as in the library
RECURSIVE BinarySearchLoop(_, _, _, _)
BinarySearchLoop(s, chosen_weight, base, size) ==
    IF size > 1
    THEN LET half == size \div 2
             mid == base + half
         IN BinarySearchLoop(s, chosen_weight,
                IF Cmp(s[mid + 1], chosen_weight) = "Greater" THEN base ELSE mid,
                size - half)
    ELSE base

\* weights.binary_search_by(..): Ok(i) is [ok |-> TRUE, idx |-> i], Err(i) is
\* [ok |-> FALSE, idx |-> i]; indices count from 0
binary_search_by(s, chosen_weight) ==
    IF Len(s) = 0 THEN [ok |-> FALSE, idx |-> 0]
    ELSE LET base == BinarySearchLoop(s, chosen_weight, 0, Len(s))
             cmp == Cmp(s[base + 1], chosen_weight)
         IN IF cmp = "Equal" THEN [ok |-> TRUE, idx |-> base]
            ELSE [ok |-> FALSE, idx |-> base + (IF cmp = "Less" THEN 1 ELSE 0)]

\* what a call of get_valid_proposers did: how it ended, what it returned and
\* the values it computed on the way (-1 and <<>> for those it never reached)
Election(status, at, value, query, weights, total_weight, chosen_weight, chosen_index) ==
    [status |-> status, at |-> at, value |-> value, query |-> query,
     weights |-> weights, total_weight |-> total_weight,
     chosen_weight |-> chosen_weight, chosen_index |-> chosen_index]

NoElection == Election("none", "", <<>>, <<>>, <<>>, -1, -1, -1)

\* no call is in flight
NoFrames == <<>>

\* the whole candidate list returned
vec_of_all(proposers, chosen_index) == proposers

\* vec![self.proposers[chosen_index]]; chosen_index counts from 0
vec_of_chosen(proposers, chosen_index) == <<proposers[chosen_index + 1]>>

\* the length check left out
assert_eq_skipped(left, right) == TRUE

\* assert_eq!(weights.len(), self.proposers.len()): TRUE when it passes
assert_eq(left, right) == left = right

\* LeaderReputation::get_valid_proposers
get_valid_proposers(self, round) ==
    LET e == engines[self]
        target_round == target_round_of(round)
        query == <<e.window_size, target_round>>
        read == try_get_block_metadata(libra_db, store_fault, e.window_size, target_round)
        sliding_window == read.value
        weights == get_weights(e.heuristic, e.proposers, sliding_window)
        cum == PrefixSums(weights)
        total_weight == TotalOf(cum)
        state == seed_state(self, round)
        rem == Rem(next(state), total_weight)
        chosen_weight == rem.value
        found == binary_search_by(cum, chosen_weight)
        chosen_index == found.idx
    IN IF read.status = "panic"
       THEN Election("panic", read.at, <<>>, query, <<>>, -1, -1, -1)
       ELSE IF ~assert_eq(Len(weights), Len(e.proposers))
       THEN Election("panic", "assert_eq", <<>>, query, weights, -1, -1, -1)
       ELSE IF overflow_checks /\ PrefixSumsOverflow(weights)
       THEN Election("panic", "add_overflow", <<>>, query, weights, -1, -1, -1)
       ELSE IF ~rem.ok
       THEN Election("panic", "rem_by_zero", <<>>, query, cum, total_weight, -1, -1)
       ELSE IF found.ok
       THEN Election("panic", "unwrap_err", <<>>, query, cum, total_weight,
                     chosen_weight, -1)
       ELSE IF chosen_index >= Len(e.proposers)
       THEN Election("panic", "index", <<>>, query, cum, total_weight,
                     chosen_weight, chosen_index)
       ELSE Election("ok", "", vec_of_chosen(e.proposers, chosen_index), query, cum,
                     total_weight, chosen_weight, chosen_index)

\* what a call returned to its caller
Outcome(status, at, value) == [status |-> status, at |-> at, value |-> value]

\* is_valid_proposer answering from the candidate list instead of the election
is_valid_proposer_of_candidates(self, author, round) ==
    LET valid == get_valid_proposers(self, round)
    IN IF valid.status = "panic" THEN Outcome("panic", valid.at, None)
       ELSE IF Contains(engines[self].proposers, author)
       THEN Outcome("ok", "", Some(author))
       ELSE Outcome("ok", "", None)

\* LeaderReputation::is_valid_proposer
is_valid_proposer(self, author, round) ==
    LET valid == get_valid_proposers(self, round)
    IN IF valid.status = "panic" THEN Outcome("panic", valid.at, None)
       ELSE IF Contains(valid.value, author) THEN Outcome("ok", "", Some(author))
       ELSE Outcome("ok", "", None)

\* Block<T> as the election reads it: author() and round(), and the rest of it
Block(author, round, payload) ==
    [author |-> author, round |-> round, payload |-> payload]

\* process_proposal running the election before it looks at the author
process_proposal_electing_first(self, proposal) ==
    LET valid == get_valid_proposers(self, proposal.round)
    IN IF valid.status = "panic" THEN Outcome("panic", valid.at, None)
       ELSE IF proposal.author = None THEN Outcome("ok", "", None)
       ELSE IF Contains(valid.value, proposal.author[1])
       THEN Outcome("ok", "", Some(proposal))
       ELSE Outcome("ok", "", None)

\* process_proposal letting every candidate's proposal through
process_proposal_of_candidates(self, proposal) ==
    IF proposal.author = None THEN Outcome("ok", "", None)
    ELSE LET author == proposal.author[1]
             valid == get_valid_proposers(self, proposal.round)
         IN IF valid.status = "panic" THEN Outcome("panic", valid.at, None)
            ELSE IF Contains(engines[self].proposers, author)
            THEN Outcome("ok", "", Some(proposal))
            ELSE Outcome("ok", "", None)

\* LeaderReputation::process_proposal
process_proposal(self, proposal) ==
    IF proposal.author = None THEN Outcome("ok", "", None)
    ELSE LET author == proposal.author[1]
             valid == get_valid_proposers(self, proposal.round)
         IN IF valid.status = "panic" THEN Outcome("panic", valid.at, None)
            ELSE IF Contains(valid.value, author) THEN Outcome("ok", "", Some(proposal))
            ELSE Outcome("ok", "", None)

\* the election process_proposal runs: none for a proposal without author
ElectionOfProposal(self, proposal) ==
    IF proposal.author = None THEN NoElection
    ELSE get_valid_proposers(self, proposal.round)

\* a backup proposal kept for the round and handed out
take_backup_proposal_kept(self, round) ==
    Outcome("ok", "", Some(Block(None, round, "backup")))

\* LeaderReputation::take_backup_proposal
take_backup_proposal(self, round) == Outcome("ok", "", None)

\* *self after a call that narrowed the window to nothing
self_after_call_forgetting(self) == [engines[self] EXCEPT !.window_size = 0]

\* *self after process_proposal or take_backup_proposal: both take &mut self
\* and neither assigns to a field
self_after_call(self) == engines[self]

\* ------------------------------------------------------------ the actions

\* a call on record: the operation, the engine, the arguments, how many events
\* the log held and what was wrong with the store when it ran, what it returned
\* and the election it ran
Call(op, self, args, out, election) ==
    [op |-> op, self |-> self, args |-> args, seen |-> Len(libra_db),
     fault |-> store_fault, out |-> out, election |-> election]

NoCall ==
    [op |-> "none", self |-> 0, args |-> <<>>, seen |-> 0, fault |-> NoFault,
     out |-> Outcome("none", "", None), election |-> NoElection]

\* the log as the call on record read it
LogOnRecord == SubSeq(libra_db, 1, ret.seen)

LastRound(db) == IF db = <<>> THEN 0 ELSE db[Len(db)].round

\* The commit path appends the NewBlockEvent of a newly committed block; the
\* committed rounds strictly increase.
Commit(round, proposer, votes) ==
    /\ round > LastRound(libra_db)
    /\ libra_db' = Append(libra_db, NewBlockEvent(round, proposer, votes))
    /\ UNCHANGED <<overflow_checks, frames, engines, prng_seed, store_fault, ret, accepted>>

\* The round-management layer calls the engine and reads what the call returned
\* before it calls again.
Resume ==
    /\ ret.op # "none"
    /\ ret' = NoCall
    /\ UNCHANGED <<overflow_checks, frames, libra_db, engines, prng_seed, store_fault, accepted>>

CallGetValidProposers(self, round) ==
    /\ ret.op = "none"
    /\ ret' = LET valid == get_valid_proposers(self, round)
              IN Call("get_valid_proposers", self, <<round>>,
                      Outcome(valid.status, valid.at, valid.value), valid)
    /\ store_fault' = after_get_events(store_fault)
    /\ UNCHANGED <<overflow_checks, frames, libra_db, engines, prng_seed, accepted>>

CallIsValidProposer(self, author, round) ==
    /\ ret.op = "none"
    /\ ret' = Call("is_valid_proposer", self, <<author, round>>,
                   is_valid_proposer(self, author, round),
                   get_valid_proposers(self, round))
    /\ store_fault' = after_get_events(store_fault)
    /\ UNCHANGED <<overflow_checks, frames, libra_db, engines, prng_seed, accepted>>

CallProcessProposal(self, proposal) ==
    /\ ret.op = "none"
    /\ ret' = Call("process_proposal", self, <<proposal>>,
                   process_proposal(self, proposal),
                   ElectionOfProposal(self, proposal))
    /\ accepted' =
           IF process_proposal(self, proposal).value # None
           THEN accepted \cup {[self |-> self, round |-> proposal.round,
                                author |-> proposal.author[1]]}
           ELSE accepted
    /\ store_fault' = IF proposal.author = None THEN store_fault
                      ELSE after_get_events(store_fault)
    /\ engines' = [engines EXCEPT ![self] = self_after_call(self)]
    /\ UNCHANGED <<overflow_checks, frames, libra_db, prng_seed>>

CallTakeBackupProposal(self, round) ==
    /\ ret.op = "none"
    /\ ret' = Call("take_backup_proposal", self, <<round>>,
                   take_backup_proposal(self, round), NoElection)
    /\ engines' = [engines EXCEPT ![self] = self_after_call(self)]
    /\ UNCHANGED <<overflow_checks, frames, libra_db, prng_seed, store_fault, accepted>>

CallGetBlockMetadata(window_size, target_round) ==
    /\ ret.op = "none"
    /\ ret' = Call("get_block_metadata", 0, <<window_size, target_round>>,
                   try_get_block_metadata(libra_db, store_fault, window_size, target_round),
                   NoElection)
    /\ store_fault' = after_get_events(store_fault)
    /\ UNCHANGED <<overflow_checks, frames, libra_db, engines, prng_seed, accepted>>

\* the heuristic of an engine applied to its candidates and a history
CallGetWeights(self, history) ==
    /\ ret.op = "none"
    /\ ret' = Call("get_weights", self, <<engines[self].proposers, history>>,
                   Outcome("ok", "", get_weights(engines[self].heuristic,
                                                 engines[self].proposers, history)),
                   NoElection)
    /\ UNCHANGED <<overflow_checks, frames, libra_db, engines, prng_seed, store_fault, accepted>>

\* ---------------------------------------------------- the inputs of the model

Candidates == <<"A", "B", "C">>

\* "D" is in no candidate list
Authors == {"A", "B", "C", "D"}

\* who proposed a committed block and who voted for it
BlockKinds == {<<"A", {"B"}>>, <<"C", {}>>}

Heuristics == {ActiveInactiveHeuristic(2, 1), ActiveInactiveHeuristic(1, 0)}

Configs ==
    {LeaderReputation_new(Candidates, w, h) : w \in {1, 2}, h \in Heuristics}

\* ------------------------------------------------ Spec: commits and elections

EngineIds == {1, 2}

Init ==
    /\ libra_db = <<>>
    /\ engines \in [EngineIds -> Configs]
    /\ prng_seed \in 0..MaxSeed
    /\ ret = NoCall
    /\ overflow_checks = TRUE
    /\ frames = NoFrames
    /\ store_fault = NoFault
    /\ accepted = {}

Next ==
    \/ \E round \in 1..MaxRound, b \in BlockKinds : Commit(round, b[1], b[2])
    \/ \E self \in EngineIds, round \in 0..MaxCallRound :
           CallGetValidProposers(self, round)
    \/ \E self \in EngineIds, author \in Authors, round \in 0..MaxCallRound :
           CallIsValidProposer(self, author, round)
    \/ Resume

Spec == Init /\ [][Next]_vars

TargetRoundLag ==
    ret.op = "get_valid_proposers" =>
        LET R == ret.args[1]
            asked == ret.election.query
        IN /\ asked = <<engines[ret.self].window_size, IF R >= 4 THEN R - 4 ELSE 0>>
           /\ asked[2] >= 0
           /\ (R = 2 => asked[2] = 0)
           /\ (R = 4 => asked[2] = 0)
           /\ (R = 10 => asked[2] = 6)

\* the election of round 10 asked for target round 6
TargetRoundLagWitness ==
    /\ ret.op = "get_valid_proposers"
    /\ ret.args[1] = 10
    /\ ret.election.query[2] = 6

\* C7: when the election of round R returns, is_valid_proposer(a, R) returns
\* Some(a) exactly when a is the one member of get_valid_proposers(R), and None
\* for every other author, those outside the candidate list included.
AuthorizationConsistency ==
    (ret.op = "is_valid_proposer" /\ ret.election.status = "ok") =>
        LET a == ret.args[1]
        IN /\ ret.out.status = "ok"
           /\ Len(ret.election.value) = 1
           /\ (ret.out.value = Some(a)) <=> (ret.election.value = <<a>>)
           /\ (ret.election.value # <<a>>) => (ret.out.value = None)
           /\ (~Contains(engines[ret.self].proposers, a)) => (ret.out.value = None)

\* is_valid_proposer refused a candidate that the election did not choose
AuthorizationConsistencyWitness ==
    /\ ret.op = "is_valid_proposer"
    /\ ret.election.status = "ok"
    /\ Contains(engines[ret.self].proposers, ret.args[1])
    /\ ret.out.value = None

\* C20: the vector the active/inactive heuristic gives an election has the
\* length of the candidate list and its i-th weight is that of the i-th
\* candidate; when active_weight > 0, inactive_weight > 0 and the list is not
\* empty its sum is positive, over the empty history too, and the election
\* passes the length check and the remainder and returns.
WeightVectorSound ==
    ret.election.status # "none" =>
        LET e == engines[ret.self]
            h == e.heuristic
            window == get_block_metadata(LogOnRecord, e.window_size, ret.election.query[2])
            w == get_weights(h, e.proposers, window)
            took_part(c) == \E k \in 1..Len(window) :
                                c = window[k].proposer \/ c \in window[k].votes
        IN /\ Len(w) = Len(e.proposers)
           /\ \A i \in 1..Len(w) :
                  w[i] = IF took_part(e.proposers[i]) THEN h.active_weight
                         ELSE h.inactive_weight
           /\ (h.active_weight > 0 /\ h.inactive_weight > 0 /\ e.proposers # <<>>) =>
                  /\ SumSeq(w) > 0
                  /\ ret.election.status = "ok"
                  /\ ret.election.total_weight = SumSeq(w)

\* an election over the empty history with positive weights returned: the
\* three inactive candidates weigh 1 each
WeightVectorSoundWitness ==
    /\ ret.op = "get_valid_proposers"
    /\ ret.seen = 0
    /\ engines[ret.self].heuristic = ActiveInactiveHeuristic(2, 1)
    /\ ret.election.status = "ok"
    /\ ret.election.total_weight = 3

\* C22: the draw of an election of round R is next(bytes) mod total, bytes
\* being the 8 bytes that spell R lowest byte first; it lies in [0, total)
\* with total > 0, and the value next gives depends on R alone, not on the
\* history, the candidate list, the engine or the calls made before.
SelectionDraw ==
    ret.election.chosen_weight # -1 =>
        LET R == IF ret.op = "get_valid_proposers" THEN ret.args[1] ELSE ret.args[2]
            total == ret.election.total_weight
            bytes == to_le_bytes(R)
        IN /\ Len(bytes) = 8
           /\ \A i \in 1..8 : bytes[i] \in 0..255
           /\ LeValue(bytes) = R
           /\ total > 0
           /\ ret.election.chosen_weight = next(bytes) % total
           /\ ret.election.chosen_weight \in 0..(total - 1)

\* the second of two differently configured engines drew for round 10 over a
\* non-empty history
SelectionDrawWitness ==
    /\ ret.op = "get_valid_proposers"
    /\ ret.self = 2
    /\ ret.args = <<10>>
    /\ engines[1] # engines[2]
    /\ libra_db # <<>>
    /\ ret.election.chosen_weight = next(to_le_bytes(10)) % ret.election.total_weight

\* ------------------------------------- SpecProposal: proposals on one engine

\* the proposals handed to process_proposal: with and without an author
Proposals ==
    {Block(a, round, "payload") :
        a \in {None} \cup {Some(x) : x \in Authors}, round \in GAP..MaxProposalRound}

InitProposal ==
    /\ libra_db = <<>>
    /\ engines \in [{1} -> Configs]
    /\ prng_seed \in 0..MaxSeed
    /\ ret = NoCall
    /\ overflow_checks = TRUE
    /\ frames = NoFrames
    /\ store_fault = NoFault
    /\ accepted = {}

NextProposal ==
    \/ \E round \in 1..MaxRound, b \in BlockKinds : Commit(round, b[1], b[2])
    \/ \E proposal \in Proposals : CallProcessProposal(1, proposal)
    \/ \E round \in GAP..MaxProposalRound : CallGetValidProposers(1, round)
    \/ \E author \in Authors, round \in GAP..MaxProposalRound :
           CallIsValidProposer(1, author, round)
    \/ Resume

SpecProposal == InitProposal /\ [][NextProposal]_vars

\* C2: all the proposals process_proposal has let through on one engine for
\* the same round have the same author, whatever commits came between them.
OneProposerPerRound ==
    \A p, q \in accepted :
        (p.self = q.self /\ p.round = q.round) => p.author = q.author

\* C8: process_proposal(p) returns Some(p), p as it was given, when the author
\* of p is the proposer elected for the round of p, and None for every other
\* proposal (the election having returned).
ProposalFiltering ==
    ret.op = "process_proposal" =>
        LET p == ret.args[1]
            valid == ret.election
        IN /\ (p.author # None /\ valid.status = "ok") => ret.out.status = "ok"
           /\ ret.out.status = "ok" =>
                  IF p.author # None /\ valid.value = <<p.author[1]>>
                  THEN ret.out.value = Some(p)
                  ELSE ret.out.value = None

\* a proposal of the elected author came back as it was given
ProposalFilteringWitness ==
    /\ ret.op = "process_proposal"
    /\ ret.out.status = "ok"
    /\ ret.out.value = Some(ret.args[1])
    /\ Len(libra_db) >= 1

\* the weights the election on record got from the heuristic: those of the
\* window over the log as it was when the call ran
WeightsOnRecord ==
    LET e == engines[ret.self]
        window == get_block_metadata(SubSeq(libra_db, 1, ret.seen), e.window_size,
                                     ret.election.query[2])
    IN get_weights(e.heuristic, e.proposers, window)

\* C10: when the heuristic returns a vector of the candidate list's length
\* whose sum is 0, get_valid_proposers panics at the remainder, before any
\* index is selected, and returns no candidate; is_valid_proposer and
\* process_proposal panic with it.
ZeroTotalFatal ==
    (/\ ret.election.status # "none"
     /\ Len(WeightsOnRecord) = Len(engines[ret.self].proposers)
     /\ SumSeq(WeightsOnRecord) = 0) =>
        /\ ret.election.status = "panic"
        /\ ret.election.at = "rem_by_zero"
        /\ ret.election.value = <<>>
        /\ ret.election.chosen_index = -1
        /\ ret.out.status = "panic"
        /\ ret.out.value = None

\* process_proposal panicked on a zero total
ZeroTotalFatalWitness ==
    /\ ret.op = "process_proposal"
    /\ ret.election.status = "panic"
    /\ Len(WeightsOnRecord) = Len(engines[ret.self].proposers)
    /\ Len(WeightsOnRecord) > 0
    /\ SumSeq(WeightsOnRecord) = 0
    /\ ret.out.status = "panic"

\* ------------------------- SpecCalls: the four operations between commits

\* proposals of the rounds 4 and 5, by a candidate the election may choose, by
\* the outsider and without author
FewProposals ==
    {Block(a, round, "payload") :
        a \in {None, Some("A"), Some("C"), Some("D")}, round \in GAP..(GAP + 1)}

NextCalls ==
    \/ \E round \in 1..MaxRound, b \in BlockKinds : Commit(round, b[1], b[2])
    \/ \E round \in GAP..(GAP + 1) : CallGetValidProposers(1, round)
    \/ \E author \in {"A", "D"}, round \in GAP..(GAP + 1) :
           CallIsValidProposer(1, author, round)
    \/ \E proposal \in FewProposals : CallProcessProposal(1, proposal)
    \/ \E round \in 0..MaxProposalRound : CallTakeBackupProposal(1, round)
    \/ Resume

SpecCalls == InitProposal /\ [][NextCalls]_vars

\* C14: take_backup_proposal(round) returns None for every round, after any
\* calls and commits, and the call changes neither the engine nor the history
\* nor anything else of the state.
BackupProposalNone ==
    [][(ret.op = "none" /\ ret'.op = "take_backup_proposal") =>
           /\ ret'.out = Outcome("ok", "", None)
           /\ UNCHANGED <<overflow_checks, frames, libra_db, engines, prng_seed, store_fault, accepted>>]_vars

\* take_backup_proposal(6) returned None after a commit and an accepted proposal
BackupProposalNoneWitness ==
    /\ ret.op = "take_backup_proposal"
    /\ ret.args = <<6>>
    /\ libra_db # <<>>
    /\ accepted # {}
    /\ ret.out.value = None

\* the call on record made again now, on the engine as it is
CallAgain ==
    CASE ret.op = "get_valid_proposers" ->
             LET valid == get_valid_proposers(ret.self, ret.args[1])
             IN Outcome(valid.status, valid.at, valid.value)
      [] ret.op = "is_valid_proposer" ->
             is_valid_proposer(ret.self, ret.args[1], ret.args[2])
      [] ret.op = "process_proposal" -> process_proposal(ret.self, ret.args[1])
      [] ret.op = "take_backup_proposal" ->
             take_backup_proposal(ret.self, ret.args[1])
      [] OTHER -> ret.out

\* C15: no step changes an engine (candidate list, window_size, heuristic) or
\* the pseudo-random function, only the commit path changes the history, and a
\* call gives the same result when it is made again over the same history,
\* whatever calls were made before it.
Stateless ==
    /\ [][/\ engines' = engines
          /\ prng_seed' = prng_seed
          /\ (ret' # ret => libra_db' = libra_db)]_vars
    /\ [](ret.seen = Len(libra_db) => CallAgain = ret.out)

\* an election ran after a proposal had been accepted and a block committed
StatelessWitness ==
    /\ ret.op = "get_valid_proposers"
    /\ ret.out.status = "ok"
    /\ accepted # {}
    /\ libra_db # <<>>

\* --------------------------------- SpecSelect: the selection over any weights

CandidateNames == <<"A", "B", "C", "D", "E">>

\* the vectors a heuristic may return: all the short ones over small weights,
\* and the one of the documented example
WeightVectors ==
    UNION {[1..n -> 0..MaxWeight] : n \in 0..MaxLen} \cup {<<10, 20, 30>>}

InitSelect ==
    /\ libra_db = <<>>
    /\ \E w \in WeightVectors :
           engines = [self \in {1} |->
                         LeaderReputation_new(SubSeq(CandidateNames, 1, Len(w)), 1,
                                              FixedHeuristic(w))]
    /\ prng_seed \in 0..MaxDraw
    /\ ret = NoCall
    /\ overflow_checks = TRUE
    /\ frames = NoFrames
    /\ store_fault = NoFault
    /\ accepted = {}

NextSelect ==
    \/ \E round \in 0..1 : CallGetValidProposers(1, round)
    \/ Resume

SpecSelect == InitSelect /\ [][NextSelect]_vars

\* C6: for every weight vector with a positive total the draw is in [0, total)
\* and the selected index is the smallest i with cum[i] > draw, cum[i] being the
\* sum of weights[0..=i]; a sum equal to the draw does not select its index.
\* With the weights [10, 20, 30] the draw 9 selects 0, 10 selects 1, 59 selects 2.
SelectionTieBreak ==
    LET w == engines[1].heuristic.fixed
        chosen == ret.election.chosen_weight
        index == ret.election.chosen_index
        cum(i) == SumSeq(SubSeq(w, 1, i + 1))
    IN (ret.op = "get_valid_proposers" /\ SumSeq(w) > 0) =>
           /\ ret.election.status = "ok"
           /\ chosen \in 0..(SumSeq(w) - 1)
           /\ index \in 0..(Len(w) - 1)
           /\ cum(index) > chosen
           /\ \A i \in 0..(index - 1) : cum(i) <= chosen
           /\ ret.out.value = <<engines[1].proposers[index + 1]>>
           /\ (w = <<10, 20, 30>> /\ chosen = 9) => index = 0
           /\ (w = <<10, 20, 30>> /\ chosen = 10) => index = 1
           /\ (w = <<10, 20, 30>> /\ chosen = 59) => index = 2

\* the draw 10 over the weights [10, 20, 30] selected index 1
SelectionTieBreakWitness ==
    /\ ret.op = "get_valid_proposers"
    /\ engines[1].heuristic.fixed = <<10, 20, 30>>
    /\ ret.election.chosen_weight = 10
    /\ ret.election.chosen_index = 1
    /\ ret.out.value = <<"B">>

\* C25: for every weight vector with a positive total, zeros at any position,
\* and every draw in [0, total), the selected candidate has a positive weight.
ZeroWeightNeverSelected ==
    LET w == engines[1].heuristic.fixed
    IN (ret.op = "get_valid_proposers" /\ SumSeq(w) > 0) =>
           /\ ret.election.status = "ok"
           /\ w[ret.election.chosen_index + 1] > 0

\* over the weights [0, 2, 0] the middle candidate was selected
ZeroWeightNeverSelectedWitness ==
    /\ ret.op = "get_valid_proposers"
    /\ engines[1].heuristic.fixed = <<0, 2, 0>>
    /\ ret.election.chosen_weight = 1
    /\ ret.out.value = <<"B">>

\* the index the selection of lines 147-155 gives a draw over the weights w
\* (-1 when the search reports an exact match)
SelectedIndex(w, draw) ==
    LET found == binary_search_by(PrefixSums(w), draw)
    IN IF found.ok THEN -1 ELSE found.idx

\* C26: for every weight vector with a positive total and every index i, the
\* draws in [0, total) that select i are exactly weights[i] many; the election
\* on record selected the index of its draw.
WeightProportional ==
    LET w == engines[1].heuristic.fixed
        total == SumSeq(w)
    IN (ret.op = "get_valid_proposers" /\ total > 0) =>
           /\ ret.election.chosen_index = SelectedIndex(w, ret.election.chosen_weight)
           /\ \A i \in 1..Len(w) :
                  Cardinality({d \in 0..(total - 1) : SelectedIndex(w, d) = i - 1}) = w[i]

\* an election over [10, 20, 30] drew a value that selects the last candidate
WeightProportionalWitness ==
    /\ ret.op = "get_valid_proposers"
    /\ engines[1].heuristic.fixed = <<10, 20, 30>>
    /\ ret.election.chosen_weight = 30
    /\ ret.election.chosen_index = 2

\* C27: when the weight vector has the candidate list's length and a positive
\* total, the search reports no exact match for any draw in [0, total) and the
\* index it gives is below the number of candidates: the election on record
\* passed unwrap_err and the indexing and returned.
SelectionCannotFail ==
    LET w == engines[1].heuristic.fixed
        total == SumSeq(w)
    IN (/\ ret.op = "get_valid_proposers"
        /\ Len(w) = Len(engines[1].proposers)
        /\ total > 0) =>
           /\ ret.election.status = "ok"
           /\ ret.election.chosen_index < Len(engines[1].proposers)
           /\ \A d \in 0..(total - 1) :
                  LET found == binary_search_by(PrefixSums(w), d)
                  IN ~found.ok /\ found.idx < Len(engines[1].proposers)

\* the draw equal to the first prefix sum of [1, 0, 1]: no exact match, the
\* last candidate selected
SelectionCannotFailWitness ==
    /\ ret.op = "get_valid_proposers"
    /\ engines[1].heuristic.fixed = <<1, 0, 1>>
    /\ ret.election.chosen_weight = 1
    /\ ret.election.status = "ok"
    /\ ret.election.chosen_index = 2

\* ------------------------------------ SpecWeights: the heuristic on its own

\* histories of up to MaxHistory records; "D" proposes without being a candidate
Histories ==
    UNION {{[i \in 1..n |-> NewBlockEvent(i, f[i][1], f[i][2])] :
               f \in [1..n -> {"A", "B", "D"} \X SUBSET {"A", "B"}]} :
           n \in 0..MaxHistory}

InitWeights ==
    /\ libra_db = <<>>
    /\ engines \in [{1} -> {LeaderReputation_new(c, 1, h) :
                              c \in {<<"A", "B", "C">>, <<"C", "A">>},
                              h \in Heuristics \cup {ActiveInactiveHeuristic(100, 1),
                                                      ActiveInactiveHeuristic(0, 1)}}]
    /\ prng_seed = 0
    /\ ret = NoCall
    /\ overflow_checks = TRUE
    /\ frames = NoFrames
    /\ store_fault = NoFault
    /\ accepted = {}

NextWeights ==
    \/ \E history \in Histories : CallGetWeights(1, history)
    \/ Resume

SpecWeights == InitWeights /\ [][NextWeights]_vars

\* C9: ActiveInactiveHeuristic::get_weights gives candidate i active_weight
\* when that candidate is the proposer or a voter of some record of the
\* history and inactive_weight otherwise; candidates [A, B, C] with the history
\* [{A, voters {B}}, {B, voters {A}}] and the weights 100 and 1 give [100, 100, 1].
ActiveInactiveWeights ==
    ret.op = "get_weights" =>
        LET h == engines[ret.self].heuristic
            candidates == ret.args[1]
            history == ret.args[2]
            weights == ret.out.value
            active(c) == \E j \in 1..Len(history) :
                            c = history[j].proposer \/ c \in history[j].votes
        IN /\ Len(weights) = Len(candidates)
           /\ \A i \in 1..Len(candidates) :
                  weights[i] = IF active(candidates[i]) THEN h.active_weight
                               ELSE h.inactive_weight
           /\ (/\ candidates = <<"A", "B", "C">>
               /\ history = <<NewBlockEvent(1, "A", {"B"}), NewBlockEvent(2, "B", {"A"})>>
               /\ h = ActiveInactiveHeuristic(100, 1)) => weights = <<100, 100, 1>>

\* the documented example: [100, 100, 1]
ActiveInactiveWeightsWitness ==
    /\ ret.op = "get_weights"
    /\ ret.args[1] = <<"A", "B", "C">>
    /\ ret.args[2] = <<NewBlockEvent(1, "A", {"B"}), NewBlockEvent(2, "B", {"A"})>>
    /\ engines[1].heuristic = ActiveInactiveHeuristic(100, 1)
    /\ ret.out.value = <<100, 100, 1>>

\* every candidate of the call on record is selected by some draw in [0, total)
EveryCandidateHasADraw ==
    LET w == ret.out.value
    IN \A i \in 1..Len(w) :
           \E d \in 0..(SumSeq(w) - 1) : SelectedIndex(w, d) = i - 1

\* C24 as stated: with inactive_weight > 0, whatever active_weight is, every
\* candidate is selected by some draw in [0, total), for every history.
DormantNotExcludedAnyActiveWeight ==
    (ret.op = "get_weights" /\ engines[ret.self].heuristic.inactive_weight > 0) =>
        EveryCandidateHasADraw

\* C24, amended: with inactive_weight > 0 and active_weight > 0, every
\* candidate, also one that never proposed or voted, is selected by some draw
\* in [0, total), for every history.
DormantNotExcluded ==
    (/\ ret.op = "get_weights"
     /\ engines[ret.self].heuristic.inactive_weight > 0
     /\ engines[ret.self].heuristic.active_weight > 0) =>
        EveryCandidateHasADraw

\* C never took part and weighs 1 against 100 and 100: the draw 200 selects it
DormantNotExcludedWitness ==
    /\ ret.op = "get_weights"
    /\ ret.args[1] = <<"A", "B", "C">>
    /\ ret.out.value = <<100, 100, 1>>
    /\ SelectedIndex(ret.out.value, 200) = 2

\* the permutations of 1..n
PermutationsOf(n) ==
    {p \in [1..n -> 1..n] : \A i, j \in 1..n : p[i] = p[j] => i = j}

\* records none of whose authors is in the candidate list
OutsiderRecords(candidates) ==
    LET outside == {CandidateNames[i] : i \in 1..Len(CandidateNames)}
                       \ {candidates[i] : i \in 1..Len(candidates)}
    IN {NewBlockEvent(9, p, v) : p \in outside, v \in SUBSET outside}

\* C29: the vector get_weights returned is also the vector of the history
\* with its records in any other order, with any of its records repeated, and
\* with a record added (in front or behind) whose proposer and voters are all
\* outside the candidate list.
HistoryAsSet ==
    ret.op = "get_weights" =>
        LET h == engines[ret.self].heuristic
            candidates == ret.args[1]
            history == ret.args[2]
            n == Len(history)
        IN /\ \A p \in PermutationsOf(n) :
                  get_weights(h, candidates, [i \in 1..n |-> history[p[i]]]) = ret.out.value
           /\ \A i \in 1..n :
                  get_weights(h, candidates, Append(history, history[i])) = ret.out.value
           /\ \A o \in OutsiderRecords(candidates) :
                  /\ get_weights(h, candidates, Append(history, o)) = ret.out.value
                  /\ get_weights(h, candidates, <<o>> \o history) = ret.out.value

\* a history of two records with different authors, A and B active, C not
HistoryAsSetWitness ==
    /\ ret.op = "get_weights"
    /\ ret.args[1] = <<"A", "B", "C">>
    /\ ret.args[2] = <<NewBlockEvent(1, "A", {}), NewBlockEvent(2, "D", {"B"})>>
    /\ ret.out.value = <<2, 2, 1>>

\* ------------------------------ SpecLong: a log that outgrows the over-fetch

\* the commit of the block of the round after the last committed one
CommitNextRound(proposer, votes) ==
    /\ LastRound(libra_db) < LongMaxRound
    /\ Commit(LastRound(libra_db) + 1, proposer, votes)

InitLong ==
    /\ libra_db = <<>>
    /\ engines \in [{1} -> {LeaderReputation_new(Candidates, w, ActiveInactiveHeuristic(2, 1)) :
                              w \in {1, 2}}]
    /\ prng_seed \in 0..MaxSeed
    /\ ret = NoCall
    /\ overflow_checks = TRUE
    /\ frames = NoFrames
    /\ store_fault = NoFault
    /\ accepted = {}

NextLong ==
    \/ CommitNextRound("A", {"B"})
    \/ \E round \in 0..MaxCallRound : CallGetValidProposers(1, round)
    \/ \E window_size \in {2, 20}, target_round \in {1, 30} :
           CallGetBlockMetadata(window_size, target_round)
    \/ Resume

SpecLong == InitLong /\ [][NextLong]_vars

\* C3: once the log has reached target_round(R), so that no record with a round
\* <= target_round(R) can follow, get_valid_proposers(R) keeps returning what it
\* returned, however many records are committed afterwards.
ElectionStableOnceCommitted ==
    (/\ ret.op = "get_valid_proposers"
     /\ LastRound(LogOnRecord) >= target_round_of(ret.args[1])) =>
        LET again == get_valid_proposers(ret.self, ret.args[1])
        IN /\ again.status = ret.out.status
           /\ again.value = ret.out.value

\* the min(window_size, n) newest of the n records with round <= target_round,
\* oldest first
MostRecentUpTo(db, window_size, target_round) ==
    LET upto == FilterRound(db, target_round)
        n == Len(upto)
    IN SubSeq(upto, n - Min(window_size, n) + 1, n)

\* C4: get_block_metadata(window_size, target_round) returns exactly the
\* min(window_size, n) most recent of the n committed records with
\* round <= target_round, in ascending round order; with the rounds 1..50
\* committed, window_size 20 and target_round 30 give the rounds 11..30.
WindowCorrectness ==
    ret.op = "get_block_metadata" =>
        /\ ret.out.value = MostRecentUpTo(LogOnRecord, ret.args[1], ret.args[2])
        /\ (ret.seen = 50 /\ ret.args = <<20, 30>>) =>
               [i \in 1..Len(ret.out.value) |-> ret.out.value[i].round]
                   = [i \in 1..20 |-> 10 + i]

\* C13: when fewer than window_size committed records have round <=
\* target_round, get_block_metadata returns exactly those records, unpadded
\* (two records and window_size 20 give the two), and an election over such a
\* history succeeds and returns one candidate.
SparseHistory ==
    LET query == IF ret.op = "get_block_metadata" THEN ret.args ELSE ret.election.query
        upto == FilterRound(LogOnRecord, query[2])
    IN /\ (ret.op = "get_block_metadata" /\ Len(upto) < query[1]) =>
              /\ ret.out.status = "ok"
              /\ ret.out.value = upto
              /\ (ret.seen = 2 /\ ret.args = <<20, 30>>) => Len(ret.out.value) = 2
       /\ (ret.op = "get_valid_proposers" /\ Len(upto) < query[1]) =>
              /\ ret.out.status = "ok"
              /\ Len(ret.out.value) = 1

\* C17: records appended with a round above target_round do not change what
\* get_block_metadata(window_size, target_round) returns: the window over the
\* longer log is the window the call on record returned.
WindowStableUnderAppend ==
    (/\ ret.op = "get_block_metadata"
     /\ \A i \in (ret.seen + 1)..Len(libra_db) : libra_db[i].round > ret.args[2]) =>
        get_block_metadata(libra_db, ret.args[1], ret.args[2]) = ret.out.value

\* C18: when the log holds at least window_size records with round <=
\* target_round, get_block_metadata returns exactly window_size records however
\* many records have a round above target_round; the window is shorter only
\* when fewer such records exist.
FullWindow ==
    ret.op = "get_block_metadata" =>
        LET n == Len(FilterRound(LogOnRecord, ret.args[2]))
        IN /\ (n >= ret.args[1]) => (Len(ret.out.value) = ret.args[1])
           /\ (Len(ret.out.value) < ret.args[1]) => (n < ret.args[1])

\* C19: every window get_block_metadata returns has at most window_size
\* records, each with round <= target_round, each a record of the log as the
\* call read it and none twice, in ascending round order.
WindowWellFormed ==
    (ret.op = "get_block_metadata" /\ ret.out.status = "ok") =>
        LET window == ret.out.value
        IN /\ Len(window) <= ret.args[1]
           /\ \A i \in 1..Len(window) :
                  /\ window[i].round <= ret.args[2]
                  /\ \E j \in 1..ret.seen : libra_db[j] = window[i]
           /\ \A i, j \in 1..Len(window) :
                  i < j => (window[i] # window[j] /\ window[i].round <= window[j].round)

\* a full window of 20 records was returned while records above target_round
\* were in the log
WindowWellFormedWitness ==
    /\ ret.op = "get_block_metadata"
    /\ ret.args = <<20, 30>>
    /\ Len(ret.out.value) = 20
    /\ ret.seen > 30

\* ------------------- SpecConfig: candidate lists and heuristics that disagree

\* candidate lists of every length from none to one more than the longest vector
CandidateLists == {SubSeq(CandidateNames, 1, n) : n \in 0..(MaxLen + 1)}

\* the heuristics an engine may be built with
AnyHeuristics == {FixedHeuristic(w) : w \in WeightVectors} \cup Heuristics

InitConfig ==
    /\ libra_db \in {<<>>, <<NewBlockEvent(1, "A", {"B"})>>}
    /\ engines \in [{1} -> {LeaderReputation_new(c, 1, h) :
                              c \in CandidateLists, h \in AnyHeuristics}]
    /\ prng_seed \in 0..MaxSeed
    /\ ret = NoCall
    /\ overflow_checks = TRUE
    /\ frames = NoFrames
    /\ store_fault = NoFault
    /\ accepted = {}

NextConfig ==
    \/ \E round \in 0..MaxProposalRound : CallGetValidProposers(1, round)
    \/ Resume

SpecConfig == InitConfig /\ [][NextConfig]_vars

\* C11: when the heuristic returns a vector whose length differs from the
\* candidate list's, get_valid_proposers panics at the assert_eq: the weights
\* are still those the heuristic returned (no cumulative sum), no total, no
\* draw and no index have been computed, and no candidate is returned.
LengthMismatchFatal ==
    (ret.op = "get_valid_proposers"
        /\ Len(WeightsOnRecord) # Len(engines[ret.self].proposers)) =>
        /\ ret.out = Outcome("panic", "assert_eq", None)
        /\ ret.election.weights = WeightsOnRecord
        /\ ret.election.total_weight = -1
        /\ ret.election.chosen_weight = -1
        /\ ret.election.chosen_index = -1
        /\ ret.election.value = <<>>

\* three candidates and a vector of two positive weights: the call panicked
LengthMismatchFatalWitness ==
    /\ ret.op = "get_valid_proposers"
    /\ Len(engines[ret.self].proposers) = 3
    /\ WeightsOnRecord = <<1, 2>>
    /\ ret.out.status = "panic"

\* C16: LeaderReputation::new accepts an empty candidate list, and then every
\* get_valid_proposers call, whatever the round, the heuristic and the history,
\* panics before an index is selected (at the assert_eq or at the remainder):
\* it returns neither an author nor an empty result.
EmptyCandidatesFatal ==
    (ret.op = "get_valid_proposers" /\ engines[ret.self].proposers = <<>>) =>
        /\ ret.out.status = "panic"
        /\ ret.out.at \in {"assert_eq", "rem_by_zero"}
        /\ ret.out.value = None
        /\ ret.election.chosen_index = -1

\* no candidates, the active/inactive heuristic with positive weights and a
\* committed record: the election of round 5 panicked at the remainder
EmptyCandidatesFatalWitness ==
    /\ ret.op = "get_valid_proposers"
    /\ ret.args = <<5>>
    /\ engines[ret.self].proposers = <<>>
    /\ engines[ret.self].heuristic = ActiveInactiveHeuristic(2, 1)
    /\ libra_db # <<>>
    /\ ret.out = Outcome("panic", "rem_by_zero", None)

\* --------------------------------- SpecFault: a store that fails or is corrupt

\* the committed rounds 1..n, every block proposed by A and voted by B
FaultLogs ==
    {[i \in 1..n |-> NewBlockEvent(i, "A", {"B"})] : n \in 0..MaxFaultLog}

InitFault ==
    /\ libra_db \in FaultLogs
    /\ engines \in [{1} -> Configs]
    /\ prng_seed = 0
    /\ ret = NoCall
    /\ overflow_checks = TRUE
    /\ frames = NoFrames
    /\ \E n \in 0..MaxIoFaults, bad \in SUBSET (1..Len(libra_db)) :
           store_fault = [io |-> n, corrupt |-> bad]
    /\ accepted = {}

NextFault ==
    \/ \E round \in GAP..MaxProposalRound : CallGetValidProposers(1, round)
    \/ \E author \in {"A", "D"}, round \in GAP..MaxProposalRound :
           CallIsValidProposer(1, author, round)
    \/ \E proposal \in Proposals : CallProcessProposal(1, proposal)
    \/ \E window_size \in 0..2, target_round \in 0..MaxFaultLog :
           CallGetBlockMetadata(window_size, target_round)
    \/ Resume

SpecFault == InitFault /\ [][NextFault]_vars

\* an undecodable event is among the window_size + 10 newest of the log and
\* fewer than window_size of the events newer than it have round <= target_round:
\* the call has to decode it
DecodesCorrupt(db, corrupt, window_size, target_round) ==
    \E p \in corrupt :
        /\ p \in 1..Len(db)
        /\ p > Len(db) - (window_size + buffer)
        /\ Cardinality({q \in (p + 1)..Len(db) : db[q].round <= target_round}) < window_size

\* C12: when get_events returns an error, or lcs::from_bytes fails on an event
\* the call decodes, get_block_metadata panics: it returns no window, and
\* get_valid_proposers, is_valid_proposer and process_proposal panic with it
\* without weights, draw or decision.  One failing answer of the store is
\* enough (there is no second get_events call), and a call whose read and
\* decoding succeed does not panic in the backend.
BackendFailureFatal ==
    LET query == IF ret.op = "get_block_metadata" THEN ret.args ELSE ret.election.query
        failed == \/ ret.fault.io > 0
                  \/ DecodesCorrupt(LogOnRecord, ret.fault.corrupt, query[1], query[2])
    IN (ret.op = "get_block_metadata" \/ ret.election.status # "none") =>
           IF failed
           THEN /\ ret.out.status = "panic"
                /\ ret.out.at \in {"get_events", "from_bytes"}
                /\ ret.out.value = None
                /\ ret.op # "get_block_metadata" =>
                       /\ ret.election.status = "panic"
                       /\ ret.election.value = <<>>
                       /\ ret.election.weights = <<>>
                       /\ ret.election.total_weight = -1
                       /\ ret.election.chosen_index = -1
           ELSE ret.out.at \notin {"get_events", "from_bytes"}

\* the one read of is_valid_proposer failed and the call panicked, although the
\* next read of the store would have succeeded
BackendFailureFatalWitness ==
    /\ ret.op = "is_valid_proposer"
    /\ ret.fault = [io |-> 1, corrupt |-> {}]
    /\ store_fault.io = 0
    /\ ret.out = Outcome("panic", "get_events", None)

\* C21: whenever get_valid_proposers returns, it returns exactly one author:
\* the candidate at the selected index, a member of the engine's candidate list.
OneCandidateReturned ==
    (ret.op = "get_valid_proposers" /\ ret.out.status = "ok") =>
        LET proposers == engines[ret.self].proposers
            index == ret.election.chosen_index
        IN /\ Len(ret.out.value) = 1
           /\ index \in 0..(Len(proposers) - 1)
           /\ ret.out.value[1] = proposers[index + 1]
           /\ Contains(proposers, ret.out.value[1])

\* an election over three candidates returned the second of them
OneCandidateReturnedWitness ==
    /\ ret.op = "get_valid_proposers"
    /\ Len(engines[ret.self].proposers) = 3
    /\ ret.election.chosen_index = 1
    /\ ret.out = Outcome("ok", "", <<"B">>)

\* C28: process_proposal returns None for every proposal without author,
\* whatever its round, without reading the store and without an election: a
\* failing store or a zero total does not make it panic.
AuthorlessDiscarded ==
    (ret.op = "process_proposal" /\ ret.args[1].author = None) =>
        /\ ret.out = Outcome("ok", "", None)
        /\ ret.election = NoElection
        /\ store_fault = ret.fault

\* a proposal without author was discarded while the store's next read would
\* have failed and the weights over the empty log summed to 0
AuthorlessDiscardedWitness ==
    /\ ret.op = "process_proposal"
    /\ ret.args[1].author = None
    /\ ret.fault.io = 1
    /\ libra_db = <<>>
    /\ engines[1].heuristic = ActiveInactiveHeuristic(1, 0)
    /\ ret.out.value = None

\* --------------------------- SpecSum: weights near the ends of the u64 range

\* the least and the greatest weights, and half the range
EdgeWeights == {0, 1, (U64 \div 2) - 1, U64 \div 2, U64 - 1}

EdgeVectors == UNION {[1..n -> EdgeWeights] : n \in 0..MaxLen}

InitSum ==
    /\ libra_db = <<>>
    /\ \E w \in EdgeVectors :
           engines = [self \in {1} |->
                         LeaderReputation_new(SubSeq(CandidateNames, 1, Len(w)), 1,
                                              FixedHeuristic(w))]
    /\ prng_seed \in 0..MaxSeed
    /\ ret = NoCall
    /\ overflow_checks \in BOOLEAN
    /\ frames = NoFrames
    /\ store_fault = NoFault
    /\ accepted = {}

NextSum ==
    \/ \E round \in 0..1 : CallGetValidProposers(1, round)
    \/ Resume

SpecSum == InitSum /\ [][NextSum]_vars

\* C30: for every weight vector whose sum fits the u64, in either build, no
\* addition of the loop overflows; the sequence it leaves is non-decreasing,
\* its i-th element is the exact sum of the first i weights and total_weight is
\* the exact sum of all of them.
PrefixSumsExact ==
    LET w == engines[1].heuristic.fixed
        cum == ret.election.weights
    IN (ret.op = "get_valid_proposers" /\ SumSeq(w) < U64) =>
           /\ ret.out.at # "add_overflow"
           /\ Len(cum) = Len(w)
           /\ \A i \in 1..Len(w) : cum[i] = SumSeq(SubSeq(w, 1, i))
           /\ \A i \in 1..(Len(w) - 1) : cum[i] <= cum[i + 1]
           /\ ret.election.total_weight = SumSeq(w)

\* two weights whose sum is the greatest u64: the election returned with the
\* exact total
PrefixSumsExactWitness ==
    /\ ret.op = "get_valid_proposers"
    /\ engines[1].heuristic.fixed = <<U64 \div 2, (U64 \div 2) - 1>>
    /\ ret.election.status = "ok"
    /\ ret.election.total_weight = U64 - 1

\* ------------------ SpecThreads: two calls in flight on one engine, by steps

Threads == {1, 2}

\* one frame for the locals of every call on the engine
frame_shared(t) == 1

\* the stack frame that holds the locals of the call of thread t: sliding_window,
\* weights, total_weight, state and chosen_weight are locals of the call
frame_of(t) == t

IdleThread ==
    [pc |-> "idle", op |-> "none", author |-> "", round |-> 0,
     out |-> Outcome("none", "", None)]

NoLocals ==
    [sliding_window |-> <<>>, weights |-> <<>>, total_weight |-> 0, chosen_weight |-> 0]

\* thread t moves to pc with the locals of its frame set to locals
Advance(t, pc, locals) ==
    frames' = [frames EXCEPT !.thread[t].pc = pc, !.locals[frame_of(t)] = locals]

\* the call of thread t ends with out
Return(t, out) ==
    frames' = [frames EXCEPT !.thread[t].pc = "returned", !.thread[t].out = out]

\* thread t calls get_valid_proposers(round) or is_valid_proposer(author, round)
Enter(t, op, author, round) ==
    /\ frames.thread[t].pc = "idle"
    /\ frames' = [frames EXCEPT
                      !.thread[t] = [pc |-> "entered", op |-> op, author |-> author,
                                     round |-> round, out |-> Outcome("none", "", None)],
                      !.locals[frame_of(t)] = NoLocals]
    /\ UNCHANGED <<libra_db, engines, prng_seed, store_fault, overflow_checks, ret, accepted>>

\* let sliding_window = self.backend.get_block_metadata(self.window_size, target_round);
StepFetch(t) ==
    LET th == frames.thread[t]
        read == try_get_block_metadata(libra_db, store_fault, engines[1].window_size,
                                       target_round_of(th.round))
    IN /\ th.pc = "entered"
       /\ IF read.status = "panic" THEN Return(t, Outcome("panic", read.at, None))
          ELSE Advance(t, "fetched",
                       [frames.locals[frame_of(t)] EXCEPT !.sliding_window = read.value])
       /\ UNCHANGED <<libra_db, engines, prng_seed, store_fault, overflow_checks, ret, accepted>>

\* let mut weights = self.heuristic.get_weights(..); assert_eq!(..);
StepWeigh(t) ==
    LET l == frames.locals[frame_of(t)]
        weights == get_weights(engines[1].heuristic, engines[1].proposers, l.sliding_window)
    IN /\ frames.thread[t].pc = "fetched"
       /\ IF ~assert_eq(Len(weights), Len(engines[1].proposers))
          THEN Return(t, Outcome("panic", "assert_eq", None))
          ELSE Advance(t, "weighed", [l EXCEPT !.weights = weights])
       /\ UNCHANGED <<libra_db, engines, prng_seed, store_fault, overflow_checks, ret, accepted>>

\* the loop of the prefix sums over the weights of the frame
StepSum(t) ==
    LET l == frames.locals[frame_of(t)]
        cum == PrefixSums(l.weights)
    IN /\ frames.thread[t].pc = "weighed"
       /\ IF overflow_checks /\ PrefixSumsOverflow(l.weights)
          THEN Return(t, Outcome("panic", "add_overflow", None))
          ELSE Advance(t, "summed",
                       [l EXCEPT !.weights = cum, !.total_weight = TotalOf(cum)])
       /\ UNCHANGED <<libra_db, engines, prng_seed, store_fault, overflow_checks, ret, accepted>>

\* let chosen_weight = next(&mut state) % total_weight;
StepDraw(t) ==
    LET l == frames.locals[frame_of(t)]
        rem == Rem(next(seed_state(1, frames.thread[t].round)), l.total_weight)
    IN /\ frames.thread[t].pc = "summed"
       /\ IF ~rem.ok THEN Return(t, Outcome("panic", "rem_by_zero", None))
          ELSE Advance(t, "drawn", [l EXCEPT !.chosen_weight = rem.value])
       /\ UNCHANGED <<libra_db, engines, prng_seed, store_fault, overflow_checks, ret, accepted>>

\* the binary search, the indexing and, for is_valid_proposer, contains(&author)
StepSelect(t) ==
    LET th == frames.thread[t]
        l == frames.locals[frame_of(t)]
        found == binary_search_by(l.weights, l.chosen_weight)
        valid == vec_of_chosen(engines[1].proposers, found.idx)
    IN /\ th.pc = "drawn"
       /\ IF found.ok THEN Return(t, Outcome("panic", "unwrap_err", None))
          ELSE IF found.idx >= Len(engines[1].proposers)
          THEN Return(t, Outcome("panic", "index", None))
          ELSE IF th.op = "get_valid_proposers" THEN Return(t, Outcome("ok", "", valid))
          ELSE IF Contains(valid, th.author)
          THEN Return(t, Outcome("ok", "", Some(th.author)))
          ELSE Return(t, Outcome("ok", "", None))
       /\ UNCHANGED <<libra_db, engines, prng_seed, store_fault, overflow_checks, ret, accepted>>

\* the caller of thread t takes the result
Leave(t) ==
    /\ frames.thread[t].pc = "returned"
    /\ frames' = [frames EXCEPT !.thread[t] = IdleThread]
    /\ UNCHANGED <<libra_db, engines, prng_seed, store_fault, overflow_checks, ret, accepted>>

InitThreads ==
    /\ libra_db \in {<<>>, <<NewBlockEvent(1, "A", {"B"}), NewBlockEvent(2, "C", {})>>}
    /\ engines \in [{1} -> Configs]
    /\ prng_seed \in 0..MaxSeed
    /\ ret = NoCall
    /\ overflow_checks = TRUE
    /\ frames = [thread |-> [t \in Threads |-> IdleThread],
                 locals |-> [t \in Threads |-> NoLocals]]
    /\ store_fault = NoFault
    /\ accepted = {}

NextThreads ==
    \E t \in Threads :
        \/ \E round \in GAP..(GAP + 2) : Enter(t, "get_valid_proposers", "", round)
        \/ \E round \in GAP..(GAP + 2), author \in {"A", "D"} :
               Enter(t, "is_valid_proposer", author, round)
        \/ StepFetch(t)
        \/ StepWeigh(t)
        \/ StepSum(t)
        \/ StepDraw(t)
        \/ StepSelect(t)
        \/ Leave(t)

SpecThreads == InitThreads /\ [][NextThreads]_vars

\* C23: with the history fixed, however the steps of two calls on the engine
\* interleave, for the same round or for different rounds, each call returns
\* what the call made alone returns; so do repeated calls for one round.
Reentrant ==
    \A t \in Threads :
        LET th == frames.thread[t]
            alone == get_valid_proposers(1, th.round)
        IN th.pc = "returned" =>
               th.out = IF th.op = "get_valid_proposers"
                        THEN Outcome(alone.status, alone.at, alone.value)
                        ELSE is_valid_proposer(1, th.author, th.round)

\* thread 1 returned from the election of round 6 while the call of thread 2
\* for round 4 was between its steps, over a history that the two rounds see
\* differently
ReentrantWitness ==
    /\ libra_db # <<>>
    /\ frames.thread[1].pc = "returned"
    /\ frames.thread[1].round = GAP + 2
    /\ frames.thread[1].out.status = "ok"
    /\ frames.thread[2].pc = "summed"
    /\ frames.thread[2].round = GAP
    /\ frames.locals[1].weights # frames.locals[2].weights

====
